---- MODULE Spec2Model ----
(***************************************************************************)
(* Model of ds210fp/src/main.rs: the happiness-data graph pipeline.        *)
(*                                                                         *)
(* main reads a map of Country records, calls build_graph (one node per    *)
(* record, edges inside every region), then inserts every record a second  *)
(* time, joins the second copies by score similarity, runs a breadth-first *)
(* search from nodes[0], computes betweenness centrality and prints every  *)
(* node's degree.  The graph is petgraph's Graph<Country, ()>, whose       *)
(* default edge type is Directed: add_edge(a, b) stores the edge a -> b    *)
(* and neighbors(a) enumerates the targets of a's outgoing edges.          *)
(*                                                                         *)
(* Scores are f64 in the source.  The model stores a score in tenths as an *)
(* integer (7.5 is 75); for every pair of values of Scores the f64 test    *)
(* (a - b).abs() < 1.0 and the integer test |a - b| < 10 agree.            *)
(***************************************************************************)
EXTENDS Integers, Sequences, FiniteSets, TLC

\* Largest number of records in the map read_csv returns.
MaxRecords == 3

\* The similarity threshold 1.0 of main, in tenths.
Threshold == 10

Regions == {"Region1", "Region2"}

\* 1.0, 5.0, 6.0, 6.8, 7.5 and 9.0 in tenths.
Scores == {10, 50, 60, 68, 75, 90}

VARIABLES
    happiness_data,  \* main: the map read_csv returned, as the sequence of its
                     \* values in the map's iteration order
    graph,           \* main: the graph, [nodes, edges]
    nodes,           \* main: the Vec<NodeIndex> of the nodes main inserted
    bfs,             \* main: the Bfs walker, [stack, discovered]
    visited,         \* the nodes bfs.next returned so far, in order
    centralities,    \* main: the Vec<Option<f64>> calculate_betweenness returned
    degrees,         \* the degrees print_node_degrees printed, by node index
    pc               \* main's position

vars == <<happiness_data, graph, nodes, bfs, visited, centralities, degrees, pc>>

----------------------------------------------------------------------------
(* Sequences *)

Reverse(s) == [k \in 1..Len(s) |-> s[Len(s) + 1 - k]]

Range(s) == {s[k] : k \in 1..Len(s)}

Abs(x) == IF x < 0 THEN -x ELSE x

\* The permutations of a finite set, as sequences.
Perms(S) ==
    {p \in [1..Cardinality(S) -> S] : \A a, b \in 1..Cardinality(S) : p[a] = p[b] => a = b}

\* The pairs <<v[a], v[b]>> in the order two nested loops over v visit them.
LoopPairs(v) ==
    [k \in 1..(Len(v) * Len(v)) |->
        <<v[((k - 1) \div Len(v)) + 1], v[((k - 1) % Len(v)) + 1]>>]

----------------------------------------------------------------------------
(* Country and the map read_csv returns *)

\* The fields main's graph code reads; happiness_rank, gdp, health, family and
\* gove_corruption are only printed.  A country_name is a number standing for
\* one distinct string.
Country(name, region, score) ==
    [country_name |-> name, country_region |-> region, happiness_score |-> score]

\* A HashMap<String, Country> keyed by country_name, in its iteration order:
\* keys are unique, and the k-th entry met is called k.  Any non-empty map in
\* any iteration order is such a sequence up to the choice of the names.
CountryMap(fields) ==
    [k \in 1..Len(fields) |-> Country(k, fields[k][1], fields[k][2])]

----------------------------------------------------------------------------
(* petgraph::Graph<Country, ()>: node weights by index, directed edges in  *)
(* insertion order.  NodeIndex is zero-based.                              *)

EmptyGraph == [nodes |-> <<>>, edges |-> <<>>]

node_count(g) == Len(g.nodes)

edge_count(g) == Len(g.edges)

node_indices(g) == 0..(node_count(g) - 1)

\* graph[index]
Weight(g, index) == g.nodes[index + 1]

\* add_node for every weight of ws in turn; the index add_node returns is the
\* node count before the insertion.
add_nodes(g, ws) == [g EXCEPT !.nodes = @ \o ws]

add_edge(g, a, b) == [g EXCEPT !.edges = Append(@, <<a, b>>)]

add_edges(g, es) == [g EXCEPT !.edges = @ \o es]

\* graph.neighbors(a) of a directed graph: the targets of a's outgoing edges,
\* newest edge first, one entry per edge.
neighbors(g, a) ==
    LET out == SelectSeq(g.edges, LAMBDA e : e[1] = a)
    IN  Reverse([k \in 1..Len(out) |-> out[k][2]])

----------------------------------------------------------------------------
(* build_graph *)

\* The first loop: one node per entry, and region_nodes, the node indices of
\* every region in insertion order.
region_nodes(country_data) ==
    [r \in {country_data[k].country_region : k \in 1..Len(country_data)} |->
        SelectSeq([k \in 1..Len(country_data) |-> k - 1],
                  LAMBDA i : country_data[i + 1].country_region = r)]

\* The edges the loops over one region's nodes add: (i, j) for i != j.
clique_edges(nodes_in_region) ==
    SelectSeq(LoopPairs(nodes_in_region), LAMBDA e : e[1] # e[2])

RECURSIVE region_edges(_, _)
region_edges(groups, region_order) ==
    IF region_order = <<>> THEN <<>>
    ELSE clique_edges(groups[Head(region_order)])
            \o region_edges(groups, Tail(region_order))

\* region_order is the order region_nodes.iter_mut() yields the regions in.
build_graph(country_data, region_order) ==
    add_edges(add_nodes(EmptyGraph, country_data),
              region_edges(region_nodes(country_data), region_order))

----------------------------------------------------------------------------
(* main: the second insertion and the similarity edges *)

\* main taking the nodes build_graph inserted instead of inserting new ones.
main_reuse_nodes(g, data) ==
    [graph |-> g, nodes |-> [k \in 1..Len(data) |-> k - 1]]

\* let nodes = happiness_data.iter().map(|..| graph.add_node(..)).collect()
main_add_nodes(g, data) ==
    [graph |-> add_nodes(g, data),
     nodes |-> [k \in 1..Len(data) |-> node_count(g) + k - 1]]

similar(g, a, b) ==
    Abs(Weight(g, a).happiness_score - Weight(g, b).happiness_score) < Threshold

\* for i in 0..nodes.len() { for j in i + 1..nodes.len() { if diff < 1.0 ...
similarity_edges(g, ns) ==
    LET idx == LoopPairs([k \in 1..Len(ns) |-> k])
        kept == SelectSeq(idx, LAMBDA p : p[1] < p[2] /\ similar(g, ns[p[1]], ns[p[2]]))
    IN  [k \in 1..Len(kept) |-> <<ns[kept[k][1]], ns[kept[k][2]]>>]

main_add_edges(g, ns) == add_edges(g, similarity_edges(g, ns))

----------------------------------------------------------------------------
(* petgraph::visit::Bfs *)

Bfs_new(g, start) == [stack |-> <<start>>, discovered |-> {start}]

\* The loop of Bfs::next over the successors of the dequeued node.
RECURSIVE bfs_visit(_, _)
bfs_visit(b, succs) ==
    IF succs = <<>> THEN b
    ELSE IF Head(succs) \in b.discovered
         THEN bfs_visit(b, Tail(succs))
         ELSE bfs_visit([stack |-> Append(b.stack, Head(succs)),
                         discovered |-> b.discovered \cup {Head(succs)}],
                        Tail(succs))

\* Bfs::next when the queue is not empty: the walker after the call.
Bfs_next(g, b) ==
    bfs_visit([b EXCEPT !.stack = Tail(@)], neighbors(g, Head(b.stack)))

\* The whole traversal from start: the sequence of nodes next returns.
RECURSIVE bfs_run(_, _, _)
bfs_run(g, b, out) ==
    IF b.stack = <<>> THEN out
    ELSE bfs_run(g, Bfs_next(g, b), Append(out, Head(b.stack)))

bfs_order(g, start) == bfs_run(g, Bfs_new(g, start), <<>>)

----------------------------------------------------------------------------
(* print_node_degrees *)

node_degree(g, node) == Len(neighbors(g, node))

print_node_degrees(g) == [node \in node_indices(g) |-> node_degree(g, node)]

----------------------------------------------------------------------------
(* Exact fractions <<numerator, denominator>> for the f64 centrality values *)

RECURSIVE Gcd(_, _)
Gcd(a, b) == IF b = 0 THEN a ELSE Gcd(b, a % b)

Rat(n, d) == IF n = 0 THEN <<0, 1>> ELSE <<n \div Gcd(Abs(n), d), d \div Gcd(Abs(n), d)>>

RatAdd(x, y) == Rat(x[1] * y[2] + y[1] * x[2], x[2] * y[2])

RatMul(x, y) == Rat(x[1] * y[1], x[2] * y[2])

RatLess(x, y) == x[1] * y[2] < y[1] * x[2]

----------------------------------------------------------------------------
(* calculate_betweenness: rustworkx_core's betweenness_centrality(graph,   *)
(* include_endpoints = false, normalized = false, parallel_threshold = 200)*)
(* Brandes' algorithm over graph.neighbors, which on this directed graph   *)
(* follows outgoing edges.                                                 *)

\* The single-source search state before the first dequeue.
sp_init(g, s) ==
    [queue |-> <<s>>,
     sorted |-> <<>>,
     distance |-> [v \in node_indices(g) |-> IF v = s THEN 0 ELSE -1],
     sigma |-> [v \in node_indices(g) |-> IF v = s THEN 1 ELSE 0],
     predecessors |-> [v \in node_indices(g) |-> <<>>]]

\* The loop over the neighbours w of the dequeued node v.
RECURSIVE sp_relax(_, _, _)
sp_relax(st, v, succs) ==
    IF succs = <<>> THEN st
    ELSE LET w == Head(succs)
             found == IF st.distance[w] < 0
                      THEN [st EXCEPT !.queue = Append(@, w),
                                      !.distance[w] = st.distance[v] + 1]
                      ELSE st
             counted == IF found.distance[w] = found.distance[v] + 1
                        THEN [found EXCEPT !.sigma[w] = @ + found.sigma[v],
                                           !.predecessors[w] = Append(@, v)]
                        ELSE found
         IN  sp_relax(counted, v, Tail(succs))

RECURSIVE sp_loop(_, _)
sp_loop(g, st) ==
    IF st.queue = <<>> THEN st
    ELSE LET v == Head(st.queue)
         IN  sp_loop(g, sp_relax([st EXCEPT !.queue = Tail(@), !.sorted = Append(@, v)],
                                 v, neighbors(g, v)))

shortest_path_for_centrality(g, s) == sp_loop(g, sp_init(g, s))

\* delta[p] += sigma[p] * coeff for every predecessor entry p of w.
RECURSIVE acc_preds(_, _, _, _)
acc_preds(delta, sigma, coeff, preds) ==
    IF preds = <<>> THEN delta
    ELSE acc_preds([delta EXCEPT ![Head(preds)] = RatAdd(@, RatMul(<<sigma[Head(preds)], 1>>, coeff))],
                   sigma, coeff, Tail(preds))

\* The nodes farthest first; acc is [delta, betweenness].
RECURSIVE acc_loop(_, _, _, _)
acc_loop(sp, s, farthest_first, acc) ==
    IF farthest_first = <<>> THEN acc.betweenness
    ELSE LET w == Head(farthest_first)
             coeff == RatMul(RatAdd(<<1, 1>>, acc.delta[w]), <<1, sp.sigma[w]>>)
             delta == acc_preds(acc.delta, sp.sigma, coeff, sp.predecessors[w])
             bet == IF w # s
                    THEN [acc.betweenness EXCEPT ![w] = RatAdd(@, delta[w])]
                    ELSE acc.betweenness
         IN  acc_loop(sp, s, Tail(farthest_first), [delta |-> delta, betweenness |-> bet])

\* One source node's contribution added to betweenness.
accumulate_source(g, s, betweenness) ==
    LET sp == shortest_path_for_centrality(g, s)
    IN  acc_loop(sp, s, Reverse(sp.sorted),
                 [delta |-> [v \in node_indices(g) |-> <<0, 1>>],
                  betweenness |-> betweenness])

RECURSIVE bc_sources(_, _, _)
bc_sources(g, s, betweenness) ==
    IF s >= node_count(g) THEN betweenness
    ELSE bc_sources(g, s + 1, accumulate_source(g, s, betweenness))

\* Every node's value is Some; the graph is directed, so nothing is halved.
betweenness_centrality(g) ==
    bc_sources(g, 0, [v \in node_indices(g) |-> <<0, 1>>])

calculate_betweenness(g) == betweenness_centrality(g)

----------------------------------------------------------------------------
(* main *)

NoBfs == [stack |-> <<>>, discovered |-> {}]

Init ==
    /\ \E n \in 1..MaxRecords :
          \E fields \in [1..n -> Regions \X Scores] :
              happiness_data = CountryMap(fields)
    /\ graph = EmptyGraph
    /\ nodes = <<>>
    /\ bfs = NoBfs
    /\ visited = <<>>
    /\ centralities = <<>>
    /\ degrees = <<>>
    /\ pc = "read"

\* let mut graph = build_graph(&happiness_data);
BuildGraph ==
    /\ pc = "read"
    /\ \E region_order \in Perms(DOMAIN region_nodes(happiness_data)) :
          graph' = build_graph(happiness_data, region_order)
    /\ pc' = "built"
    /\ UNCHANGED <<happiness_data, nodes, bfs, visited, centralities, degrees>>

AddNodes ==
    /\ pc = "built"
    /\ graph' = main_add_nodes(graph, happiness_data).graph
    /\ nodes' = main_add_nodes(graph, happiness_data).nodes
    /\ pc' = "nodes"
    /\ UNCHANGED <<happiness_data, bfs, visited, centralities, degrees>>

AddEdges ==
    /\ pc = "nodes"
    /\ graph' = main_add_edges(graph, nodes)
    /\ pc' = "edges"
    /\ UNCHANGED <<happiness_data, nodes, bfs, visited, centralities, degrees>>

\* let start_node = nodes[0]; let mut bfs = Bfs::new(&graph, start_node);
BfsNew ==
    /\ pc = "edges"
    /\ bfs' = Bfs_new(graph, nodes[1])
    /\ pc' = "bfs"
    /\ UNCHANGED <<happiness_data, graph, nodes, visited, centralities, degrees>>

\* while let Some(node) = bfs.next(&graph) { println!(..) }
BfsNext ==
    /\ pc = "bfs"
    /\ bfs.stack # <<>>
    /\ bfs' = Bfs_next(graph, bfs)
    /\ visited' = Append(visited, Head(bfs.stack))
    /\ UNCHANGED <<happiness_data, graph, nodes, centralities, degrees, pc>>

BfsEnd ==
    /\ pc = "bfs"
    /\ bfs.stack = <<>>
    /\ pc' = "traversed"
    /\ UNCHANGED <<happiness_data, graph, nodes, bfs, visited, centralities, degrees>>

\* let centralities = calculate_betweenness(&graph);
CalculateBetweenness ==
    /\ pc = "traversed"
    /\ centralities' = calculate_betweenness(graph)
    /\ pc' = "scored"
    /\ UNCHANGED <<happiness_data, graph, nodes, bfs, visited, degrees>>

PrintNodeDegrees ==
    /\ pc = "scored"
    /\ degrees' = print_node_degrees(graph)
    /\ pc' = "done"
    /\ UNCHANGED <<happiness_data, graph, nodes, bfs, visited, centralities>>

Next ==
    \/ BuildGraph
    \/ AddNodes
    \/ AddEdges
    \/ BfsNew
    \/ BfsNext
    \/ BfsEnd
    \/ CalculateBetweenness
    \/ PrintNodeDegrees

Spec == Init /\ [][Next]_vars

----------------------------------------------------------------------------
(* calculate_betweenness on a five-node star.  nodes lists the hub first,  *)
(* then the leaves in the order their edges are inserted; every edge is    *)
(* inserted as add_edge(hub, leaf) or as add_edge(leaf, hub).              *)

StarNodes == 0..4

StarWeights == [k \in 1..Cardinality(StarNodes) |-> Country(k, "Region1", 10)]

InitStar ==
    /\ happiness_data = StarWeights
    /\ graph = [nodes |-> StarWeights, edges |-> <<>>]
    /\ nodes \in Perms(StarNodes)
    /\ bfs = NoBfs
    /\ visited = <<>>
    /\ centralities = <<>>
    /\ degrees = <<>>
    /\ pc = "star"

StarAddEdge ==
    /\ pc = "star"
    /\ edge_count(graph) < Len(nodes) - 1
    /\ LET hub == nodes[1]
           leaf == nodes[edge_count(graph) + 2]
       IN  \/ graph' = add_edge(graph, hub, leaf)
           \/ graph' = add_edge(graph, leaf, hub)
    /\ UNCHANGED <<happiness_data, nodes, bfs, visited, centralities, degrees, pc>>

StarCentrality ==
    /\ pc = "star"
    /\ edge_count(graph) = Len(nodes) - 1
    /\ centralities' = calculate_betweenness(graph)
    /\ pc' = "star_scored"
    /\ UNCHANGED <<happiness_data, graph, nodes, bfs, visited, degrees>>

NextStar ==
    \/ StarAddEdge
    \/ StarCentrality

SpecStar == InitStar /\ [][NextStar]_vars

----------------------------------------------------------------------------
(* Readings of the graph the properties below are stated in *)

\* main is past its edge loops: the graph the traversal, the centrality, the
\* DOT dump and the degree report read.
Analysed == pc \in {"edges", "bfs", "traversed", "scored", "done"}

EdgeSet(g) == Range(g.edges)

\* Some edge joins a and b, in either direction.
Joined(g, a, b) == <<a, b>> \in EdgeSet(g) \/ <<b, a>> \in EdgeSet(g)

SameRegion(g, a, b) == Weight(g, a).country_region = Weight(g, b).country_region

\* The nodes build_graph inserted and the nodes main inserted.
BuildNodes == 0..(Len(happiness_data) - 1)

MainNodes == Range(nodes)

\* The edges of the analysed graph by the policy that added them: the tail of
\* the edge list is what main's loops appended, the head is build_graph's.
SimilarityPart == similarity_edges(graph, nodes)

RegionPart == SubSeq(graph.edges, 1, edge_count(graph) - Len(SimilarityPart))

Within(es, S) == \A k \in 1..Len(es) : es[k][1] \in S /\ es[k][2] \in S

RECURSIVE SumOver(_, _)
SumOver(f, S) ==
    IF S = {} THEN 0
    ELSE LET x == CHOOSE y \in S : TRUE IN f[x] + SumOver(f, S \ {x})

\* The connected component of start, edges taken as undirected.
RECURSIVE Grow(_, _)
Grow(g, S) ==
    LET T == S \cup {b \in node_indices(g) : \E a \in S : Joined(g, a, b)}
    IN  IF T = S THEN S ELSE Grow(g, T)

Component(g, start) == Grow(g, {start})

NoRepeats(s) == \A a, b \in 1..Len(s) : s[a] = s[b] => a = b

\* The whole construction for a map met in the given order.
pipeline(data, region_order) ==
    LET built == main_add_nodes(build_graph(data, region_order), data)
    IN  [graph |-> main_add_edges(built.graph, built.nodes), nodes |-> built.nodes]

Permute(data, p) == [k \in 1..Len(data) |-> data[p[k]]]

NameOf(g, a) == Weight(g, a).country_name

\* The analysed graph read by country name: the pairs of names an edge joins,
\* the degrees of a country's two nodes (build_graph's, then main's), and the
\* countries a traversal from a country's main node reaches.
PairsByName(g) == {{NameOf(g, e[1]), NameOf(g, e[2])} : e \in EdgeSet(g)}

DegreesByName(g, n) ==
    {<<NameOf(g, a), node_degree(g, a), node_degree(g, a + n)>> : a \in 0..(n - 1)}

ReachByName(g, n) ==
    {<<NameOf(g, a), {NameOf(g, b) : b \in Range(bfs_order(g, a + n))}>> : a \in 0..(n - 1)}

ByName(g, n) == <<PairsByName(g), DegreesByName(g, n), ReachByName(g, n)>>

----------------------------------------------------------------------------
(* The claims *)

\* C1: the graph the traversal, centrality, degree and visualisation steps
\* read has as many nodes as there are input records.
C1_NodeCountIsRecordCount ==
    Analysed => node_count(graph) = Len(happiness_data)

\* C2: for two records of different regions with scores 7.5 and 6.8,
\* build_graph returns a graph with at least one node and exactly one edge.
C2_TestBuildGraph ==
    (/\ pc = "built"
     /\ Len(happiness_data) = 2
     /\ happiness_data[1].country_region # happiness_data[2].country_region
     /\ happiness_data[1].happiness_score = 75
     /\ happiness_data[2].happiness_score = 68)
    => (node_count(graph) > 0 /\ edge_count(graph) = 1)

\* C3: in the built graph every two distinct nodes whose scores differ by less
\* than 1.0 are joined by an edge, and two nodes whose scores differ by 1.0 or
\* more and whose regions differ are joined by none.
C3_SimilarityCompleteAndSound ==
    Analysed =>
        \A a, b \in node_indices(graph) :
            a # b =>
                /\ similar(graph, a, b) => Joined(graph, a, b)
                /\ (~similar(graph, a, b) /\ ~SameRegion(graph, a, b))
                       => ~Joined(graph, a, b)

\* C4: in the built graph every two distinct nodes of the same region are
\* joined by an edge, and no node has an edge to itself.
C4_RegionCliqueComplete ==
    Analysed =>
        /\ \A a, b \in node_indices(graph) :
               (a # b /\ SameRegion(graph, a, b)) => Joined(graph, a, b)
        /\ \A a \in node_indices(graph) : ~Joined(graph, a, a)

\* C5: the degrees the degree report prints sum to twice the edge count.
C5_Handshake ==
    pc = "done" => SumOver(degrees, DOMAIN degrees) = 2 * edge_count(graph)

\* C6: the traversal visits exactly the connected component of its start
\* node, edges taken as undirected, and no node twice.
C6_BfsVisitsComponent ==
    pc = "traversed" =>
        /\ Range(visited) = Component(graph, nodes[1])
        /\ NoRepeats(visited)

\* C7: three records of one region with scores 9.0, 1.0 and 5.0 give a graph
\* with exactly 3 edges, a triangle of region edges.
C7_RegionTriangle ==
    (/\ pc \in {"built", "done"}
     /\ Len(happiness_data) = 3
     /\ \A k \in 1..3 : happiness_data[k].country_region = happiness_data[1].country_region
     /\ <<happiness_data[1].happiness_score, happiness_data[2].happiness_score,
          happiness_data[3].happiness_score>> = <<90, 10, 50>>)
    => /\ edge_count(graph) = 3
       /\ \A a, b \in BuildNodes : a # b => Joined(graph, a, b)

\* C8: on a five-node star the hub's betweenness centrality is strictly
\* greater than every leaf's, whichever way the edges were inserted.
C8_StarHubAboveLeaves ==
    pc = "star_scored" =>
        \A k \in 2..Len(nodes) : RatLess(centralities[nodes[k]], centralities[nodes[1]])

\* C9: whichever order the record map is iterated in, the edge set read as
\* pairs of country names, every country's reported degree and the countries
\* a traversal from a given country reaches are the same.
C9_OrderIndependent ==
    pc = "done" =>
        \A p \in Perms(1..Len(happiness_data)) :
            \A region_order \in Perms(DOMAIN region_nodes(happiness_data)) :
                ByName(pipeline(Permute(happiness_data, p), region_order).graph,
                       Len(happiness_data))
                    = ByName(graph, Len(happiness_data))

\* C10: the analysed graph holds two disjoint sets of n nodes, build_graph's
\* and main's; region edges stay inside the first, similarity edges inside the
\* second, no edge joins the two sets and no pair of nodes is joined by edges
\* of both policies.
C10_TwoDisjointCopies ==
    Analysed =>
        LET region_part == RegionPart
            similarity_part == SimilarityPart
            main_nodes == MainNodes
        IN  /\ node_count(graph) = 2 * Len(happiness_data)
            /\ Cardinality(main_nodes) = Len(happiness_data)
            /\ BuildNodes \cap main_nodes = {}
            /\ BuildNodes \cup main_nodes = node_indices(graph)
            /\ graph.edges = region_part \o similarity_part
            /\ Within(region_part, BuildNodes)
            /\ Within(similarity_part, main_nodes)
            /\ \A k \in 1..edge_count(graph) :
                   (graph.edges[k][1] \in BuildNodes) = (graph.edges[k][2] \in BuildNodes)
            /\ \A e \in Range(region_part) : \A f \in Range(similarity_part) :
                   {e[1], e[2]} # {f[1], f[2]}

\* A run with three records in which both policies added edges.
C10_Witness ==
    /\ pc = "done"
    /\ Len(happiness_data) = 3
    /\ RegionPart # <<>>
    /\ SimilarityPart # <<>>

----------------------------------------------------------------------------
(* What does hold of the code where a claim above fails *)

\* build_graph's own nodes of one region are joined in both directions.
RegionCliqueInsideBuildGraph ==
    (pc = "built" \/ Analysed) =>
        \A a, b \in BuildNodes :
            (a # b /\ SameRegion(graph, a, b))
                => (<<a, b>> \in EdgeSet(graph) /\ <<b, a>> \in EdgeSet(graph))

\* The nodes main inserted are joined whenever their scores are similar.
SimilarityCompleteAmongMainNodes ==
    Analysed =>
        \A a, b \in MainNodes : (a # b /\ similar(graph, a, b)) => Joined(graph, a, b)

\* No edge joins a node to itself, and no edge joins two nodes of different
\* regions whose scores differ by 1.0 or more.
NoUnfoundedEdge ==
    Analysed =>
        \A a, b \in node_indices(graph) :
            Joined(graph, a, b) => (a # b /\ (similar(graph, a, b) \/ SameRegion(graph, a, b)))

\* The printed degrees are out-degrees: they sum to the edge count.
DegreeSumIsEdgeCount ==
    pc = "done" => SumOver(degrees, DOMAIN degrees) = edge_count(graph)

\* The traversal returns no node twice and stays inside the component.
BfsInsideComponent ==
    pc = "traversed" =>
        (NoRepeats(visited) /\ Range(visited) \subseteq Component(graph, nodes[1]))

\* The unordered pairs of names joined do not depend on the iteration order.
PairsByNameOrderFree ==
    pc = "done" =>
        \A p \in Perms(1..Len(happiness_data)) :
            \A region_order \in Perms(DOMAIN region_nodes(happiness_data)) :
                PairsByName(pipeline(Permute(happiness_data, p), region_order).graph)
                    = PairsByName(graph)

====
